---- MODULE Spec2Model ----
(***************************************************************************)
(* Model of src/audio_pause.py, the Streamlit "Natural Audio Silence       *)
(* Remover".  One action of the model is one run of the script, started by *)
(* one user event (a file picked or removed, a slider moved, a button      *)
(* clicked).  Times are integers in milliseconds, as pydub counts them;    *)
(* the values the script computes in seconds are IEEE-754 doubles and are  *)
(* modelled bit for bit (see "Floating point").                            *)
(***************************************************************************)
EXTENDS Integers, Sequences, FiniteSets, TLC

VARIABLES
    uploaded,          \* st.file_uploader: None or the file picked
    silence_thresh,    \* sidebar slider, dB
    min_silence_len,   \* sidebar slider, in steps of 0.25 s (8 = 2.0 s)
    keep_start,        \* sidebar slider, ms
    keep_end,          \* sidebar slider, ms
    audio,             \* st.session_state.audio
    audio_path,        \* st.session_state.audio_path
    last_file,         \* st.session_state.last_file
    analyzed,          \* st.session_state.analyzed
    nonsilent_ranges,  \* st.session_state.nonsilent_ranges, None while unset
    tmpfiles,          \* the temporary files that exist on disk
    view,              \* what the last script run rendered
    error,             \* the exception that ended the last script run, or "none"
    pauses,            \* the pause list the last run derived
    total_silence,     \* the total the last run accumulated
    call,              \* the process_audio call of the last run, or None
    analyzedOn,        \* history: the buffer detect_nonsilent last ran on
    superseded         \* history: an upload has replaced an earlier buffer

vars == <<uploaded, silence_thresh, min_silence_len, keep_start, keep_end,
          audio, audio_path, last_file, analyzed, nonsilent_ranges,
          tmpfiles, view, error, pauses, total_silence, call, analyzedOn,
          superseded>>

\* an optional value is the empty sequence or a one-element sequence
None    == <<>>
Some(x) == <<x>>

Max(a, b) == IF a >= b THEN a ELSE b
Min(a, b) == IF a <= b THEN a ELSE b

(***************************************************************************)
(* Floating point.  The seconds the script computes are Python floats      *)
(* (IEEE-754 doubles).  A double v with 0 <= v < 2^16 is held as the five  *)
(* base-2^16 digits of v * 2^64, most significant first: the first digit   *)
(* is the integer part, the other four the fraction.  Every value the      *)
(* script forms is 0 or at least 2^-12, so it is a multiple of 2^-64 and   *)
(* the digits hold it exactly; each operation is the exact result rounded  *)
(* to Mantissa significant bits, ties to even.                             *)
(***************************************************************************)
Mantissa == 53
Base     == 2^16

FloatZero == <<0, 0, 0, 0, 0>>

\* bit k of a, bit 0 being the least significant of the last digit
Bit(a, k) == (a[Len(a) - (k \div 16)] \div 2^(k % 16)) % 2

\* the position of the most significant 1 of a # 0
TopBit(a) ==
    LET j == CHOOSE j \in 1..Len(a) : a[j] # 0 /\ \A i \in 1..(j - 1) : a[i] = 0
        t == CHOOSE t \in 0..15 : a[j] \div 2^t = 1
    IN  16 * (Len(a) - j) + t

\* a with its c least significant bits cleared
Truncate(a, c) ==
    [j \in 1..Len(a) |->
        LET low == 16 * (Len(a) - j)
        IN  IF low + 16 <= c THEN 0
            ELSE IF low >= c THEN a[j]
            ELSE (a[j] \div 2^(c - low)) * 2^(c - low)]

\* a with v added to digit j, the carry going up
RECURSIVE AddAt(_, _, _)
AddAt(a, j, v) ==
    IF j = 0 THEN a
    ELSE IF a[j] + v >= Base
    THEN AddAt([a EXCEPT ![j] = a[j] + v - Base], j - 1, 1)
    ELSE [a EXCEPT ![j] = a[j] + v]

\* round-to-nearest, ties-to-even, to Mantissa significant bits; sticky says
\* that the exact value has nonzero bits below those of a
RoundNearestEven(a, sticky) ==
    IF a = FloatZero THEN a
    ELSE LET c == TopBit(a) - (Mantissa - 1)
         IN  IF c <= 0 THEN a
             ELSE LET guard == Bit(a, c - 1)
                      rest  == sticky \/ \E k \in 0..(c - 2) : Bit(a, k) = 1
                      kept  == Truncate(a, c)
                  IN  IF guard = 1 /\ (rest \/ Bit(a, c) = 1)
                      THEN AddAt(kept, Len(a) - (c \div 16), 2^(c % 16))
                      ELSE kept

\* the first n base-2^16 digits after the point of r / d, for 0 <= r < d
RECURSIVE QuotientDigits(_, _, _)
QuotientDigits(r, d, n) ==
    IF n = 0 THEN <<>>
    ELSE <<(r * Base) \div d>> \o QuotientDigits((r * Base) % d, d, n - 1)

\* what is left of r / d after those n digits
RECURSIVE Remainder(_, _, _)
Remainder(r, d, n) == IF n = 0 THEN r ELSE Remainder((r * Base) % d, d, n - 1)

\* digits 1..j of a - b, given the borrow out of the digits below
RECURSIVE SubDigits(_, _, _, _)
SubDigits(a, b, j, borrow) ==
    IF j = 0 THEN <<>>
    ELSE IF a[j] - b[j] - borrow < 0
    THEN Append(SubDigits(a, b, j - 1, 1), a[j] - b[j] - borrow + Base)
    ELSE Append(SubDigits(a, b, j - 1, 0), a[j] - b[j] - borrow)

\* digits 1..j of a + b, given the carry out of the digits below
RECURSIVE AddDigits(_, _, _, _)
AddDigits(a, b, j, carry) ==
    IF j = 0 THEN <<>>
    ELSE IF a[j] + b[j] + carry >= Base
    THEN Append(AddDigits(a, b, j - 1, 1), a[j] + b[j] + carry - Base)
    ELSE Append(AddDigits(a, b, j - 1, 0), a[j] + b[j] + carry)

\* x / 1000 for an int x >= 0 (Python true division: correctly rounded)
MsToSeconds(x) ==
    RoundNearestEven(<<x \div 1000>> \o QuotientDigits(x % 1000, 1000, 4),
                     Remainder(x % 1000, 1000, 4) # 0)

\* the slider value q * 0.25, exact
QuarterSeconds(q) == <<q \div 4, (q % 4) * 2^14, 0, 0, 0>>

\* a - b for a >= b, a + b, a >= b
FloatSub(a, b) == RoundNearestEven(SubDigits(a, b, Len(a), 0), FALSE)
FloatAdd(a, b) == RoundNearestEven(AddDigits(a, b, Len(a), 0), FALSE)
FloatGeq(a, b) ==
    ~ \E j \in 1..Len(a) : a[j] < b[j] /\ \A i \in 1..(j - 1) : a[i] = b[i]

(***************************************************************************)
(* pydub.  An AudioSegment is a sequence of runs <<length in ms, sample     *)
(* magnitude>>: mono, 16 bit, one frame per millisecond, every sample of a *)
(* run having the run's magnitude.                                         *)
(***************************************************************************)
RECURSIVE Duration(_)
Duration(seg) == IF seg = <<>> THEN 0 ELSE seg[1][1] + Duration(Tail(seg))

\* how much of run j of seg lies in [s, e)
Overlap(seg, j, s, e) ==
    LET from == Duration(SubSeq(seg, 1, j - 1))
    IN  Max(0, Min(e, from + seg[j][1]) - Max(s, from))

\* seg[s:e]
Slice(seg, s, e) ==
    SelectSeq([j \in 1..Len(seg) |-> <<Overlap(seg, j, s, e), seg[j][2]>>],
              LAMBDA r : r[1] > 0)

RECURSIVE SumSquares(_)
SumSquares(seg) ==
    IF seg = <<>> THEN 0
    ELSE seg[1][1] * seg[1][2] * seg[1][2] + SumSquares(Tail(seg))

RECURSIVE Peak(_)
Peak(seg) == IF seg = <<>> THEN 0 ELSE Max(seg[1][2], Peak(Tail(seg)))

\* floor(db_to_float(db) * max_possible_amplitude), the sliders' range
ThresholdAmplitude(db) ==
    CASE db = -60 -> 32   [] db = -55 -> 58   [] db = -50 -> 103
      [] db = -45 -> 184  [] db = -40 -> 327  [] db = -35 -> 582
      [] db = -30 -> 1036 [] db = -25 -> 1842 [] db = -20 -> 3276

\* audio_slice.rms <= silence_thresh: rms is floor(sqrt(mean of squares))
IsSilent(slice, db) ==
    LET t == ThresholdAmplitude(db) + 1
    IN  SumSquares(slice) \div Duration(slice) < t * t

\* the loop of detect_silence that joins the silent slice starts into ranges
RECURSIVE CombineSilence(_, _, _, _, _, _, _)
CombineSilence(starts, k, prev_i, current_range_start, msl, step, acc) ==
    IF k > Len(starts)
    THEN Append(acc, <<current_range_start, prev_i + msl>>)
    ELSE LET continuous      == starts[k] = prev_i + step
             silence_has_gap == starts[k] > prev_i + msl
         IN  IF ~continuous /\ silence_has_gap
             THEN CombineSilence(starts, k + 1, starts[k], starts[k], msl, step,
                                 Append(acc, <<current_range_start, prev_i + msl>>))
             ELSE CombineSilence(starts, k + 1, starts[k], current_range_start,
                                 msl, step, acc)

\* the starts of the slices detect_silence finds silent
SilenceStarts(seg, msl, db, step) ==
    LET last_slice_start == Duration(seg) - msl
        regular          == [k \in 1..((last_slice_start \div step) + 1) |->
                                (k - 1) * step]
        slice_starts     == IF last_slice_start % step # 0
                            THEN Append(regular, last_slice_start) ELSE regular
    IN  SelectSeq(slice_starts, LAMBDA i : IsSilent(Slice(seg, i, i + msl), db))

SilentRanges(silence_starts, msl, step) ==
    IF silence_starts = <<>> THEN <<>>
    ELSE CombineSilence(silence_starts, 2, silence_starts[1],
                        silence_starts[1], msl, step, <<>>)

detect_silence(seg, msl, db, step) ==
    IF Duration(seg) < msl THEN <<>>
    ELSE SilentRanges(SilenceStarts(seg, msl, db, step), msl, step)

\* the loop of detect_nonsilent over the silent ranges
RECURSIVE Complement(_, _, _, _)
Complement(silent, k, prev_end_i, acc) ==
    IF k > Len(silent) THEN acc
    ELSE Complement(silent, k + 1, silent[k][2],
                    Append(acc, <<prev_end_i, silent[k][1]>>))

\* detect_nonsilent, given the silent ranges
NonsilentRanges(silent_ranges, len_seg) ==
    LET between  == Complement(silent_ranges, 1, 0, <<>>)
        end_i    == silent_ranges[Len(silent_ranges)][2]
        withTail == IF end_i # len_seg
                    THEN Append(between, <<end_i, len_seg>>) ELSE between
    IN  IF silent_ranges = <<>> THEN << <<0, len_seg>> >>
        ELSE IF silent_ranges[1][1] = 0 /\ silent_ranges[1][2] = len_seg THEN <<>>
        ELSE IF withTail[1] = <<0, 0>> THEN Tail(withTail) ELSE withTail

detect_nonsilent(seg, msl, db, step) ==
    NonsilentRanges(detect_silence(seg, msl, db, step), Duration(seg))

crossfade_dur == 60
seek_step     == 100
TargetPeak    == 29204

\* seg1.append(seg2, crossfade): the blend is held as one run at the louder
\* of the two faded parts' peaks
AppendCrossfade(seg1, seg2, crossfade) ==
    IF crossfade = 0 THEN seg1 \o seg2
    ELSE IF crossfade > Duration(seg1) \/ crossfade > Duration(seg2)
    THEN "ValueError"
    ELSE LET n1 == Duration(seg1)
             n2 == Duration(seg2)
             xf == Max(Peak(Slice(seg1, n1 - crossfade, n1)),
                       Peak(Slice(seg2, 0, crossfade)))
         IN  Slice(seg1, 0, n1 - crossfade) \o << <<crossfade, xf>> >>
                \o Slice(seg2, crossfade, n2)

\* seg.normalize(headroom=1.0)
Normalize(seg) ==
    LET peak == Peak(seg)
    IN  IF peak = 0 THEN seg
        ELSE [j \in 1..Len(seg) |-> <<seg[j][1], (seg[j][2] * TargetPeak) \div peak>>]

(***************************************************************************)
(* The inputs.  A file is a name and its bytes; the bytes either decode to *)
(* an AudioSegment or make AudioSegment.from_file raise.                   *)
(***************************************************************************)
Talk   == << <<300, 1000>>, <<600, 0>>, <<300, 1000>>, <<2100, 0>>, <<400, 1000>> >>
Exact  == << <<200, 1000>>, <<500, 0>>, <<300, 1000>> >>
Tail55 == << <<100, 1000>>, <<500, 0>>, <<55, 1000>> >>
Lead   == << <<600, 0>>, <<400, 100>>, <<700, 0>>, <<200, 100>> >>

Wav(frames) == [format |-> "wav", frames |-> frames]
Junk        == [format |-> "junk"]

Files ==
    { [name |-> "a.wav", data |-> Wav(Talk)],
      [name |-> "a.wav", data |-> Wav(Exact)],
      [name |-> "a.wav", data |-> Wav(<<>>)],
      [name |-> "b.wav", data |-> Wav(Tail55)],
      [name |-> "b.wav", data |-> Wav(Lead)],
      [name |-> "b.wav", data |-> Junk] }

Thresholds  == {-60, -40}
MinSilences == {2, 8}
KeepStarts  == {0, 100}
KeepEnds    == {0, 150}

\* how many temporary files the disk holds
MaxTemp == 3

Decodable(data) == data.format = "wav"
from_file(data) == data.frames

\* a name no existing file has (tempfile draws names until one is free)
FreshPath(files) ==
    CHOOSE p \in 1..(Cardinality(files) + 1) :
        (\A f \in files : f.path # p) /\ \A q \in 1..(p - 1) : \E f \in files : f.path = q

Exists(files, p) == \E f \in files : f.path = p
Unlink(files, p) == {f \in files : f.path # p}

(***************************************************************************)
(* The script.                                                             *)
(***************************************************************************)
\* lines 152-158: the old backing file is removed and the upload written
WriteUpload ==
    LET kept == IF audio_path # None /\ Exists(tmpfiles, audio_path[1])
                THEN Unlink(tmpfiles, audio_path[1]) ELSE tmpfiles
    IN  [path  |-> FreshPath(kept),
         files |-> kept \cup {[path |-> FreshPath(kept), kind |-> "upload"]}]

\* an upload handler that forgets to clear the analyzed flag
LoadFileKeepsAnalyzed(file) ==
    IF Decodable(file.data)
    THEN [audio |-> Some(from_file(file.data)),
          audio_path |-> Some(WriteUpload.path),
          last_file |-> Some(file.name), analyzed |-> analyzed,
          tmpfiles |-> WriteUpload.files, raised |-> "none",
          superseded |-> (superseded \/ audio # None)]
    ELSE [audio |-> audio, audio_path |-> Some(WriteUpload.path),
          last_file |-> last_file, analyzed |-> analyzed,
          tmpfiles |-> WriteUpload.files, raised |-> "CouldntDecodeError",
          superseded |-> superseded]

\* lines 150-162: a new upload replaces the backing file and the buffer;
\* from_file raises on a file it cannot decode
LoadFile(file) ==
    IF Decodable(file.data)
    THEN [audio |-> Some(from_file(file.data)),
          audio_path |-> Some(WriteUpload.path),
          last_file |-> Some(file.name), analyzed |-> FALSE,
          tmpfiles |-> WriteUpload.files, raised |-> "none",
          superseded |-> (superseded \/ audio # None)]
    ELSE [audio |-> audio, audio_path |-> Some(WriteUpload.path),
          last_file |-> last_file, analyzed |-> analyzed,
          tmpfiles |-> WriteUpload.files, raised |-> "CouldntDecodeError",
          superseded |-> superseded]

KeepSession ==
    [audio |-> audio, audio_path |-> audio_path, last_file |-> last_file,
     analyzed |-> analyzed, tmpfiles |-> tmpfiles, raised |-> "none",
     superseded |-> superseded]

\* lines 198-211: the pause derivation loop, from pair i on
RECURSIVE PauseLoop(_, _, _, _, _)
PauseLoop(ranges, i, msl, ps, total) ==
    IF i > Len(ranges) - 1 THEN [pauses |-> ps, total_silence |-> total]
    ELSE LET end_current      == MsToSeconds(ranges[i][2])
             start_next       == MsToSeconds(ranges[i + 1][1])
             silence_duration == FloatSub(start_next, end_current)
         IN  IF FloatGeq(silence_duration, QuarterSeconds(msl))
             THEN PauseLoop(ranges, i + 1, msl,
                      Append(ps, [pause_num |-> Len(ps) + 1,
                                  start     |-> end_current,
                                  end       |-> start_next,
                                  duration  |-> silence_duration]),
                      FloatAdd(total, silence_duration))
             ELSE PauseLoop(ranges, i + 1, msl, ps, total)

\* a derivation that also counts the silence before the first interval
DerivePausesWithLead(ranges, msl) ==
    PauseLoop(<< <<0, 0>> >> \o ranges, 1, msl, <<>>, FloatZero)

DerivePauses(ranges, msl) == PauseLoop(ranges, 1, msl, <<>>, FloatZero)

\* padding without the clamps
PadRangeUnclamped(r, len_audio, ks, ke) == <<r[1] - ks, r[2] + ke>>

\* lines 38-41
PadRange(r, len_audio, ks, ke) ==
    <<Max(0, r[1] - ks), Min(len_audio, r[2] + ke)>>

AdjustRanges(ranges, len_audio, ks, ke) ==
    [i \in 1..Len(ranges) |-> PadRange(ranges[i], len_audio, ks, ke)]

\* lines 46-51: the join loop from segment i on; ok is FALSE when append raised
RECURSIVE JoinLoop(_, _, _, _)
JoinLoop(seg, adjusted_ranges, i, output_audio) ==
    IF i > Len(adjusted_ranges) THEN [ok |-> TRUE, seg |-> output_audio]
    ELSE LET segment == Slice(seg, adjusted_ranges[i][1], adjusted_ranges[i][2])
         IN  IF i = 1 THEN JoinLoop(seg, adjusted_ranges, 2, segment)
             ELSE IF crossfade_dur > Duration(output_audio)
                     \/ crossfade_dur > Duration(segment)
             THEN [ok |-> FALSE, seg |-> output_audio]
             ELSE JoinLoop(seg, adjusted_ranges, i + 1,
                           AppendCrossfade(output_audio, segment, crossfade_dur))

\* lines 57-88, given the joined audio.  fault is where the environment
\* fails the call: "none", "export" (the write of line 63 fails part-way) or
\* "download" (line 79).
ExportAudio(base, joined_audio, output_audio, output_path, files, fault) ==
    [call     |-> base @@
                  [joined_ms |-> Some(Duration(joined_audio)),
                   output    |-> Some([ms   |-> Duration(output_audio),
                                       peak |-> Peak(output_audio)])],
     tmpfiles |-> IF fault = "none" THEN files
                  ELSE files \cup {[path |-> output_path, kind |-> "export"]},
     raised   |-> IF fault = "none" THEN "none"
                  ELSE IF fault = "export" THEN "OSError"
                  ELSE "StreamlitAPIException"]

\* lines 43-88, given the padded ranges and the outcome of the join loop
StitchAudio(base, joined, files, fault) ==
    IF ~joined.ok
    THEN [call |-> base @@ [joined_ms |-> None, output |-> None],
          tmpfiles |-> files, raised |-> "ValueError"]
    ELSE ExportAudio(base, joined.seg, Normalize(joined.seg),
                     FreshPath(files), files, fault)

\* lines 31-88
process_audio(seg, ranges, ks, ke, files, fault) ==
    StitchAudio([len_audio        |-> Duration(seg),
                 nonsilent_ranges |-> ranges,
                 adjusted_ranges  |-> AdjustRanges(ranges, Duration(seg), ks, ke)],
                JoinLoop(seg, AdjustRanges(ranges, Duration(seg), ks, ke), 1, <<>>),
                files, fault)

NotInvoked(files) == [call |-> None, tmpfiles |-> files, raised |-> "none"]

\* lines 213-241: what the run shows once the pauses are derived
ShowAnalysis(s, d, p, invoke) ==
    /\ pauses' = d.pauses
    /\ total_silence' = d.total_silence
    /\ call' = IF invoke THEN Some(p.call) ELSE None
    /\ tmpfiles' = p.tmpfiles
    /\ error' = p.raised
    /\ view' = IF d.pauses = <<>> THEN "no_pauses"
               ELSE IF ~invoke THEN "preview"
               ELSE IF p.raised = "none" THEN "processed" ELSE "error"

\* lines 164-241: the rest of the run once the buffer is in the session
ShowFile(s, ranges, msl, ks, ke, analyze_button, process_button, fault) ==
    /\ analyzed' = (analyze_button \/ s.analyzed)
    /\ nonsilent_ranges' = ranges
    /\ analyzedOn' = IF analyze_button THEN s.audio ELSE analyzedOn
    /\ IF ~((analyze_button \/ s.analyzed) /\ ranges # None)
       THEN /\ pauses' = <<>>
            /\ total_silence' = FloatZero
            /\ call' = None
            /\ tmpfiles' = s.tmpfiles
            /\ error' = "none"
            /\ view' = "analyze_prompt"
       ELSE IF MsToSeconds(Duration(s.audio[1])) = FloatZero
       THEN \E d \in {DerivePauses(ranges[1], msl)} :
                /\ pauses' = d.pauses
                /\ total_silence' = d.total_silence
                /\ call' = None
                /\ tmpfiles' = s.tmpfiles
                /\ error' = "ZeroDivisionError"
                /\ view' = "error"
       ELSE \E d \in {DerivePauses(ranges[1], msl)} :
            \E p \in {IF d.pauses # <<>> /\ process_button
                      THEN process_audio(s.audio[1], ranges[1], ks, ke,
                                         s.tmpfiles, fault)
                      ELSE NotInvoked(s.tmpfiles)} :
                ShowAnalysis(s, d, p, d.pauses # <<>> /\ process_button)

\* One run of the script (lines 93-257) with the widgets at the given values.
Rerun(up, thr, msl, ks, ke, analyze_button, process_button, fault) ==
    /\ uploaded' = up
    /\ silence_thresh' = thr
    /\ min_silence_len' = msl
    /\ keep_start' = ks
    /\ keep_end' = ke
    /\ IF up = None
       THEN /\ view' = "upload_prompt"
            /\ error' = "none"
            /\ pauses' = <<>>
            /\ total_silence' = FloatZero
            /\ call' = None
            /\ UNCHANGED <<audio, audio_path, last_file, analyzed,
                           nonsilent_ranges, tmpfiles, analyzedOn, superseded>>
       ELSE \E s \in {IF audio = None \/ last_file # Some(up[1].name)
                      THEN LoadFile(up[1]) ELSE KeepSession} :
            /\ audio' = s.audio
            /\ audio_path' = s.audio_path
            /\ last_file' = s.last_file
            /\ superseded' = s.superseded
            /\ IF s.raised # "none"
               THEN /\ view' = "error"
                    /\ error' = s.raised
                    /\ analyzed' = s.analyzed
                    /\ tmpfiles' = s.tmpfiles
                    /\ pauses' = <<>>
                    /\ total_silence' = FloatZero
                    /\ call' = None
                    /\ UNCHANGED <<nonsilent_ranges, analyzedOn>>
               ELSE \E ranges \in
                        {IF analyze_button
                         THEN Some(detect_nonsilent(s.audio[1], msl * 250, thr,
                                                    seek_step))
                         ELSE nonsilent_ranges} :
                        ShowFile(s, ranges, msl, ks, ke, analyze_button,
                                 process_button, fault)

\* the buttons the last run rendered
AnalyzeShown == uploaded # None /\ error # "CouldntDecodeError"
ProcessShown == pauses # <<>>

Idle(up, thr, msl, ks, ke) == Rerun(up, thr, msl, ks, ke, FALSE, FALSE, "none")

PickFile(f) ==
    /\ uploaded # Some(f)
    /\ Idle(Some(f), silence_thresh, min_silence_len, keep_start, keep_end)

ClearFile ==
    /\ uploaded # None
    /\ Idle(None, silence_thresh, min_silence_len, keep_start, keep_end)

MoveThreshold(v) ==
    /\ v # silence_thresh
    /\ Idle(uploaded, v, min_silence_len, keep_start, keep_end)

MoveMinSilence(v) ==
    /\ v # min_silence_len
    /\ Idle(uploaded, silence_thresh, v, keep_start, keep_end)

MoveKeepStart(v) ==
    /\ v # keep_start
    /\ Idle(uploaded, silence_thresh, min_silence_len, v, keep_end)

MoveKeepEnd(v) ==
    /\ v # keep_end
    /\ Idle(uploaded, silence_thresh, min_silence_len, keep_start, v)

ClickAnalyze ==
    /\ AnalyzeShown
    /\ Rerun(uploaded, silence_thresh, min_silence_len, keep_start, keep_end,
             TRUE, FALSE, "none")

ClickProcess(fault) ==
    /\ ProcessShown
    /\ fault # "none" => Cardinality(tmpfiles) < MaxTemp
    /\ Rerun(uploaded, silence_thresh, min_silence_len, keep_start, keep_end,
             FALSE, TRUE, fault)

ClickDownload ==
    /\ view = "processed"
    /\ Idle(uploaded, silence_thresh, min_silence_len, keep_start, keep_end)

\* the first run of the script: defaults of lines 99-126 and 137-142
Init ==
    /\ uploaded = None
    /\ silence_thresh = -40
    /\ min_silence_len = 8
    /\ keep_start = 100
    /\ keep_end = 150
    /\ audio = None
    /\ audio_path = None
    /\ last_file = None
    /\ analyzed = FALSE
    /\ nonsilent_ranges = None
    /\ tmpfiles = {}
    /\ view = "upload_prompt"
    /\ error = "none"
    /\ pauses = <<>>
    /\ total_silence = FloatZero
    /\ call = None
    /\ analyzedOn = None
    /\ superseded = FALSE

Next ==
    \/ \E f \in Files : PickFile(f)
    \/ ClearFile
    \/ \E v \in Thresholds : MoveThreshold(v)
    \/ \E v \in MinSilences : MoveMinSilence(v)
    \/ \E v \in KeepStarts : MoveKeepStart(v)
    \/ \E v \in KeepEnds : MoveKeepEnd(v)
    \/ ClickAnalyze
    \/ \E fault \in {"none", "export", "download"} : ClickProcess(fault)
    \/ ClickDownload

Spec == Init /\ [][Next]_vars

(***************************************************************************)
(* Properties.                                                             *)
(***************************************************************************)
\* the last run reached the pause derivation of lines 195-211
Derived ==
    /\ uploaded # None
    /\ error # "CouldntDecodeError"
    /\ analyzed
    /\ nonsilent_ranges # None

InBuffer(r, len_audio) == 0 <= r[1] /\ r[1] < r[2] /\ r[2] <= len_audio

\* C1: every interval process_audio receives inside a buffer of length L is
\* padded to exactly (max(0, start - keep_start), min(L, end + keep_end)), so
\* 0 <= padded_start <= start < end <= padded_end <= L.
PaddingClamped ==
    call # None =>
        /\ Len(call[1].adjusted_ranges) = Len(call[1].nonsilent_ranges)
        /\ \A i \in 1..Len(call[1].nonsilent_ranges) :
            LET r == call[1].nonsilent_ranges[i]
                a == call[1].adjusted_ranges[i]
                L == call[1].len_audio
            IN  InBuffer(r, L) =>
                  /\ a[1] = (IF r[1] - keep_start > 0 THEN r[1] - keep_start ELSE 0)
                  /\ a[2] = (IF r[2] + keep_end < L THEN r[2] + keep_end ELSE L)
                  /\ 0 <= a[1] /\ a[1] <= r[1]
                  /\ r[2] <= a[2] /\ a[2] <= L

\* process_audio padded intervals in the buffer: one clamped at 0, one clamped
\* at the buffer length, one moved by the full keep_start
PaddingClampedWitness ==
    /\ call # None
    /\ keep_start > 0
    /\ keep_end > 0
    /\ \A i \in 1..Len(call[1].nonsilent_ranges) :
           InBuffer(call[1].nonsilent_ranges[i], call[1].len_audio)
    /\ \E i \in 1..Len(call[1].nonsilent_ranges) :
           call[1].nonsilent_ranges[i][1] - keep_start < 0
    /\ \E i \in 1..Len(call[1].nonsilent_ranges) :
           call[1].nonsilent_ranges[i][2] + keep_end > call[1].len_audio
    /\ \E i \in 1..Len(call[1].nonsilent_ranges) :
           call[1].nonsilent_ranges[i][1] - keep_start > 0

RECURSIVE PaddedTotal(_, _)
PaddedTotal(ranges, i) ==
    IF i > Len(ranges) THEN 0
    ELSE (ranges[i][2] - ranges[i][1]) + PaddedTotal(ranges, i + 1)

\* C2: the join loop of every process_audio call produces audio whose duration
\* is the sum of the padded lengths minus 60 ms per join, and normalization
\* keeps that duration.
JoinedDuration ==
    call # None =>
        /\ call[1].joined_ms =
               Some(PaddedTotal(call[1].adjusted_ranges, 1)
                    - (Len(call[1].adjusted_ranges) - 1) * 60)
        /\ call[1].output # None
        /\ call[1].output[1].ms = call[1].joined_ms[1]

\* C3: no join step of process_audio is attempted with a crossfade longer than
\* the running output or the segment appended, so no join step fails.
NoJoinFails ==
    /\ error # "ValueError"
    /\ call # None => call[1].joined_ms # None

\* the pairs (i, i+1) of consecutive intervals at least msl_ms apart
RECURSIVE LongGaps(_, _, _)
LongGaps(ranges, i, msl_ms) ==
    IF i > Len(ranges) - 1 THEN <<>>
    ELSE IF ranges[i + 1][1] - ranges[i][2] >= msl_ms
         THEN <<i>> \o LongGaps(ranges, i + 1, msl_ms)
         ELSE LongGaps(ranges, i + 1, msl_ms)

RECURSIVE SumDurations(_, _, _)
SumDurations(ps, k, acc) ==
    IF k > Len(ps) THEN acc
    ELSE SumDurations(ps, k + 1, FloatAdd(acc, ps[k].duration))

\* C4: the derived pauses are exactly the gaps between consecutive stored
\* intervals that are at least min_silence_len long, numbered 1..k in time
\* order, each from end(i) to start(i+1), and total_silence is their sum.
PausesAreTheLongGaps ==
    Derived =>
        LET r == nonsilent_ranges[1]
            g == LongGaps(nonsilent_ranges[1], 1, min_silence_len * 250)
        IN  /\ Len(pauses) = Len(g)
            /\ \A k \in 1..Len(g) :
                   /\ pauses[k].pause_num = k
                   /\ pauses[k].start = MsToSeconds(r[g[k]][2])
                   /\ pauses[k].end = MsToSeconds(r[g[k] + 1][1])
                   /\ pauses[k].duration = FloatSub(pauses[k].end, pauses[k].start)
            /\ total_silence = SumDurations(pauses, 1, FloatZero)

\* C5: the derivation yields at most max(0, len(intervals) - 1) pauses, and
\* their total duration is at most the duration of the buffer.
PausesBounded ==
    Derived =>
        /\ Len(pauses) <= Max(0, Len(nonsilent_ranges[1]) - 1)
        /\ FloatGeq(MsToSeconds(Duration(audio[1])), total_silence)

\* a derivation over three intervals in the buffer that kept both gaps
PausesBoundedWitness ==
    /\ Derived
    /\ Len(nonsilent_ranges[1]) = 3
    /\ \A i \in 1..3 : InBuffer(nonsilent_ranges[1][i], Duration(audio[1]))
    /\ Len(pauses) = 2
    /\ total_silence # FloatZero

\* C6: the interval list Analyze stores is time-ordered and non-overlapping,
\* with 0 <= start < end <= duration for every interval.
StoredRangesOrdered ==
    nonsilent_ranges # None =>
        LET r == nonsilent_ranges[1]
        IN  /\ \A i \in 1..Len(r) : InBuffer(r[i], Duration(analyzedOn[1]))
            /\ \A i \in 1..(Len(r) - 1) :
                   r[i][2] <= r[i + 1][1] /\ r[i][1] < r[i + 1][1]

\* C7: between runs at most one upload backing file exists and no export file
\* of process_audio is left behind, whatever failed.
TempFilesReleased ==
    /\ Cardinality({f \in tmpfiles : f.kind = "upload"}) <= 1
    /\ \A f \in tmpfiles : f.kind # "export"

\* C8: with a decodable file in the uploader, the session buffer is the decode
\* of that file.
BufferIsCurrentUpload ==
    (uploaded # None /\ Decodable(uploaded[1].data)) =>
        audio = Some(from_file(uploaded[1].data))

\* C9: process_audio is called only with analyzed set, a non-empty pause list
\* and at least two intervals; an analysis without qualifying pauses ends in
\* the 'no long pauses' state without a call.
ProcessOnlyWithPauses ==
    /\ call # None =>
           /\ analyzed
           /\ pauses # <<>>
           /\ Len(call[1].nonsilent_ranges) >= 2
    /\ (Derived /\ pauses = <<>>) => (view = "no_pauses" /\ call = None)

\* C10: whenever the preview is shown or process_audio is called, the stored
\* ranges are what Analyze computed from the buffer now in the session.
RangesFromHeldBuffer ==
    (view \in {"preview", "processed"} \/ call # None) =>
        /\ analyzed
        /\ analyzedOn = audio
        /\ \E t \in Thresholds, m \in MinSilences :
               nonsilent_ranges =
                   Some(detect_nonsilent(audio[1], m * 250, t, seek_step))
        /\ call # None => call[1].nonsilent_ranges = nonsilent_ranges[1]

\* a preview of the second buffer of the session, analysed after it replaced
\* the first
RangesFromHeldBufferWitness ==
    /\ superseded
    /\ view = "preview"
    /\ analyzedOn = audio
====
